---------------------------- MODULE Spec2Model ----------------------------
(***************************************************************************)
(* Tic-tac-toe over a shared publish/subscribe topic.                      *)
(*                                                                         *)
(* The repository holds two drafts of the same program:                    *)
(*   "main"                   src/main.rs with the board engine of         *)
(*                            src/tictactoe.rs                             *)
(*   "network_communication"  src/network_communication.rs with the board  *)
(*                            engine of src/network_communication/         *)
(*                            tictactoe.rs                                 *)
(* The variable draft says which of the two is running; it never changes.  *)
(*                                                                         *)
(* Nine specifications share the variables:                                *)
(*   SpecWin    check_win applied to an arbitrary filling of the board     *)
(*   SpecBoard  a TicTacToe object driven through its public methods       *)
(*   Spec       one participant's event loop: local input lines and the    *)
(*              decoded events the internal queue hands to the loop        *)
(*   SpecInbound  the inbound path of one participant: payloads from the   *)
(*              topic are decoded by inject_event, sent to the queue by    *)
(*              the spawned tasks and taken off it by the loop             *)
(*   SpecOrder  the inbound path with a second message arriving before the *)
(*              task of the first has sent                                 *)
(*   SpecFair   the inbound path under fair scheduling of tasks and loop   *)
(*   SpecTwo    two participants, an initiator and an invitee, typing any  *)
(*              command; every event is handled before the next is         *)
(*              published                                                  *)
(*   SpecQueued the same two participants with events queueing up          *)
(*   SpecPlay   the same two participants playing one game by the rules    *)
(*              on the whole board                                         *)
(***************************************************************************)
EXTENDS Integers, Sequences, FiniteSets, TLC

VARIABLES
    draft,          \* which draft of the program is running
    running,        \* FALSE once the process has panicked
    game_session,   \* GameSession {opponent_id, game {state, winner}, your_turn}
    published,      \* payloads the last handler published on the topic
    out,            \* last line the last handler printed
    ret,            \* value returned by the last direct call on the board engine
    inbound,        \* msg of the last FloodsubEvent::Message(msg), as an Option
    spawned,        \* events of the tasks spawn_internally started, not yet sent
    queue,          \* the unbounded channel response_sender -> response_rcv
    sessions,       \* two participants: peer id -> its GameSession
    pending         \* two participants: peer id -> the events decoded from the
                    \* other's messages (spawned or queued) it has not handled

\* The inbound path from the subscription to the loop
net == <<inbound, spawned, queue>>

\* The two participants of SpecTwo, SpecQueued and SpecPlay
two == <<sessions, pending>>

vars == <<draft, running, game_session, published, out, ret, net, two>>

Drafts == {"main", "network_communication"}

\* Largest coordinate a caller or an inbound Turn message supplies (usize).
MaxCoord == 3

Coords == 0..MaxCoord
Idx == 0..2

-----------------------------------------------------------------------------
(* Board engine: enum Tile, enum Player, struct TicTacToe                  *)

Tiles == {"Cross", "Circle", "Empty"}

Players == {"You", "Opponent", "Noone"}

to_char(tile) ==
    CASE tile = "Cross" -> "X"
      [] tile = "Circle" -> "O"
      [] tile = "Empty" -> " "

tile(player) ==
    CASE player = "You" -> "Circle"
      [] player = "Opponent" -> "Cross"
      [] player = "Noone" -> "Empty"

EmptyState == [i \in Idx |-> [j \in Idx |-> "Empty"]]

TicTacToe_new == [state |-> EmptyState, winner |-> "Noone"]

\* Option<T> is a sequence of length 0 (None) or 1 (Some).
None == <<>>
Some(v) == <<v>>

\* src/tictactoe.rs: only the four corners are given a diagonal.
is_corner(x, y) ==
    CASE (x = 0 /\ y = 0) \/ (x = 2 /\ y = 2) -> Some("Direct")
      [] (x = 2 /\ y = 0) \/ (x = 0 /\ y = 2) -> Some("Undirect")
      [] OTHER -> None

\* src/tictactoe.rs: Option<[Tile; 3]> as a sequence of 0 or 1 lines.
get_diagonal(state, x, y) ==
    LET c == is_corner(x, y) IN
    IF c = None THEN <<>>
    ELSE IF c[1] = "Direct"
         THEN << <<state[0][0], state[1][1], state[2][2]>> >>
         ELSE << <<state[0][2], state[1][1], state[2][0]>> >>

\* src/network_communication/tictactoe.rs: the centre is on both diagonals.
get_diagonal_type(x, y) ==
    CASE (x = 0 /\ y = 0) \/ (x = 2 /\ y = 2) -> Some("Direct")
      [] (x = 2 /\ y = 0) \/ (x = 0 /\ y = 2) -> Some("Undirect")
      [] (x = 1 /\ y = 1) -> Some("Middle")
      [] OTHER -> None

get_direct_diagonal(state) == <<state[0][0], state[1][1], state[2][2]>>

\* The source reads state[index][index] here too.
get_indirect_diagonal(state) == <<state[0][0], state[1][1], state[2][2]>>

\* src/network_communication/tictactoe.rs: get_diagonal(..).unwrap_or_default()
get_diagonal_vec(state, x, y) ==
    LET c == get_diagonal_type(x, y) IN
    IF c = None THEN <<>>
    ELSE CASE c[1] = "Direct" -> <<get_direct_diagonal(state)>>
           [] c[1] = "Undirect" -> <<get_indirect_diagonal(state)>>
           [] c[1] = "Middle" ->
                <<get_direct_diagonal(state), get_indirect_diagonal(state)>>

\* fold(true, |res, t| (t == tile) && res) over one line
all_tile(line, tl) == \A i \in 1..Len(line) : line[i] = tl

check_win(d, state, tl, x, y) ==
    LET col == <<state[0][y], state[1][y], state[2][y]>>
        row == <<state[x][0], state[x][1], state[x][2]>>
        options == <<col, row>> \o
                   (IF d = "main" THEN get_diagonal(state, x, y)
                                  ELSE get_diagonal_vec(state, x, y))
    IN \E i \in 1..Len(options) : all_tile(options[i], tl)

\* state[x][y] = tile; check_win(tile, x, y)
make_turn(d, game, tl, x, y) ==
    LET st == [game.state EXCEPT ![x][y] = tl] IN
    [state |-> st, won |-> check_win(d, st, tl, x, y)]

\* Mutation of make_turn_universal: coordinates are reduced modulo 3 instead
\* of being rejected.
make_turn_universal_wrapping(d, game, player, x, y) ==
    LET xw == x % 3
        yw == y % 3
    IN IF game.state[xw][yw] # "Empty"
       THEN [game |-> game, res |-> "OccupiedField"]
       ELSE LET t == make_turn(d, game, tile(player), xw, yw) IN
            [game |-> [state |-> t.state,
                       winner |-> IF t.won THEN player ELSE game.winner],
             res |-> "Ok"]

\* Mutation of make_turn_universal: an occupied cell is written over.
make_turn_universal_overwriting(d, game, player, x, y) ==
    IF ~(x \in 0..2) \/ ~(y \in 0..2)
    THEN [game |-> game, res |-> "InvalidValue"]
    ELSE LET t == make_turn(d, game, tile(player), x, y) IN
         [game |-> [state |-> t.state,
                    winner |-> IF t.won THEN player ELSE game.winner],
          res |-> "Ok"]

\* Result<(), GameError> with the object after the call.
make_turn_universal(d, game, player, x, y) ==
    IF ~(x \in 0..2) \/ ~(y \in 0..2)
    THEN [game |-> game, res |-> "InvalidValue"]
    ELSE IF game.state[x][y] # "Empty"
    THEN [game |-> game, res |-> "OccupiedField"]
    ELSE LET t == make_turn(d, game, tile(player), x, y) IN
         [game |-> [state |-> t.state,
                    winner |-> IF t.won THEN player ELSE game.winner],
          res |-> "Ok"]

make_my_turn(d, game, x, y) == make_turn_universal(d, game, "You", x, y)

make_opponent_turn(d, game, x, y) == make_turn_universal(d, game, "Opponent", x, y)

am_i_winner(game) == game.winner = "You"

is_opponent_winner(game) == game.winner = "Opponent"

get_state(game) == [i \in Idx |-> [j \in Idx |-> to_char(game.state[i][j])]]

reset(game) == [state |-> EmptyState, winner |-> "Noone"]

\* The reference of the engine's own quickcheck test.
check_win_brute_force(state, tl, x, y) ==
    \/ state[0][y] = tl /\ state[1][y] = tl /\ state[2][y] = tl
    \/ state[x][0] = tl /\ state[x][1] = tl /\ state[x][2] = tl
    \/ /\ <<x, y>> \in {<<0, 0>>, <<1, 1>>, <<2, 2>>}
       /\ state[0][0] = tl /\ state[1][1] = tl /\ state[2][2] = tl
    \/ /\ <<x, y>> \in {<<2, 0>>, <<1, 1>>, <<0, 2>>}
       /\ state[2][0] = tl /\ state[1][1] = tl /\ state[0][2] = tl

-----------------------------------------------------------------------------
(* GameSession   (src/main.rs, src/network_communication.rs)                *)

GameSession_new ==
    [opponent_id |-> "", game |-> TicTacToe_new, your_turn |-> None]

initiate(gs, opp_id, yt) ==
    [gs EXCEPT !.opponent_id = opp_id, !.your_turn = Some(yt)]

is_initiated(gs) == gs.your_turn # None

GameSession_reset(gs) ==
    [gs EXCEPT !.game = reset(gs.game), !.opponent_id = ""]

\* Mutation of is_your_turn: any initiated session may move.
is_your_turn_initiated(gs) == gs.your_turn # None

is_your_turn(gs) == gs.your_turn # None /\ gs.your_turn[1]

\* Mutation of GameSession::make_opponent_turn: your_turn is left as it was.
GameSession_make_opponent_turn_no_flip(d, gs, x, y) ==
    [gs EXCEPT !.game = make_opponent_turn(d, gs.game, x, y).game]

\* The Result of the board engine is dropped; your_turn is set in any case.
GameSession_make_opponent_turn(d, gs, x, y) ==
    [gs EXCEPT !.game = make_opponent_turn(d, gs.game, x, y).game,
               !.your_turn = Some(TRUE)]

\* your_turn is set before the board engine is asked.
GameSession_make_my_turn(d, gs, x, y) ==
    LET r == make_my_turn(d, gs.game, x, y) IN
    [gs |-> [gs EXCEPT !.your_turn = Some(FALSE), !.game = r.game],
     res |-> r.res]

NoRet == [op |-> "none"]

\* The two participants: "a" sends the invitation, "b" receives it.
Participants == {"a", "b"}

Other(p) == IF p = "a" THEN "b" ELSE "a"

\* Both processes have just started.
TwoNew ==
    /\ sessions = [p \in Participants |-> GameSession_new]
    /\ pending = [p \in Participants |-> <<>>]

-----------------------------------------------------------------------------
(* SpecWin: check_win on every filling of the board                        *)

InitWin ==
    /\ draft \in Drafts
    /\ running = TRUE
    /\ \E st \in [Idx -> [Idx -> Tiles]] :
          game_session = [GameSession_new EXCEPT !.game.state = st]
    /\ published = <<>>
    /\ out = ""
    /\ ret = NoRet
    /\ inbound = None
    /\ spawned = <<>>
    /\ queue = <<>>
    /\ TwoNew

call_check_win(tl, x, y) ==
    /\ ret' = [op |-> "check_win",
               val |-> check_win(draft, game_session.game.state, tl, x, y)]
    /\ UNCHANGED <<draft, running, game_session, published, out, net, two>>

NextWin == \E tl \in {"Circle", "Cross"}, x \in Idx, y \in Idx : call_check_win(tl, x, y)

SpecWin == InitWin /\ [][NextWin]_vars

-----------------------------------------------------------------------------
(* SpecBoard: a TicTacToe object driven through its public methods         *)

InitBoard ==
    /\ draft \in Drafts
    /\ running = TRUE
    /\ game_session = GameSession_new
    /\ published = <<>>
    /\ out = ""
    /\ ret = NoRet
    /\ inbound = None
    /\ spawned = <<>>
    /\ queue = <<>>
    /\ TwoNew

call_make_my_turn(x, y) ==
    LET r == make_my_turn(draft, game_session.game, x, y) IN
    /\ game_session' = [game_session EXCEPT !.game = r.game]
    /\ ret' = [op |-> "place", val |-> r.res]
    /\ UNCHANGED <<draft, running, published, out, net, two>>

call_make_opponent_turn(x, y) ==
    LET r == make_opponent_turn(draft, game_session.game, x, y) IN
    /\ game_session' = [game_session EXCEPT !.game = r.game]
    /\ ret' = [op |-> "place", val |-> r.res]
    /\ UNCHANGED <<draft, running, published, out, net, two>>

call_get_state ==
    /\ ret' = [op |-> "get_state", val |-> get_state(game_session.game)]
    /\ UNCHANGED <<draft, running, game_session, published, out, net, two>>

call_reset ==
    /\ game_session' = [game_session EXCEPT !.game = reset(game_session.game)]
    /\ ret' = [op |-> "reset"]
    /\ UNCHANGED <<draft, running, published, out, net, two>>

NextBoard ==
    \/ \E x \in Coords, y \in Coords : call_make_my_turn(x, y)
    \/ \E x \in Coords, y \in Coords : call_make_opponent_turn(x, y)
    \/ call_get_state
    \/ call_reset

SpecBoard == InitBoard /\ [][NextBoard]_vars

-----------------------------------------------------------------------------
(* The event loop of one participant                                       *)

\* user_peer_id of the local participant
LocalId == "a"

\* get_peers(): the deduplicated list mDNS has discovered
Discovered == <<"b", "c">>

\* Largest peer index typed after "start".
MaxIndex == 2

\* Games of Spec are played on the first MaxCell cells in row-major order.
MaxCell == 4

InPlay(x, y) == 3 * x + y < MaxCell

HelpLine == "turn <row> <col>     - sends turn to opponent"
PeersLine == "<index>: <peer_id>"
TableLine == "C _ | _ | _"
ProposalLine == "Do you want to play TicTacToe with me? y[es] or n[o] ?"
MakeTurnLine == "Make turn with command 'turn x y'"
NoLine == "no!"
LoseLine == "Game over, you lose!"
WinLine == "Congrats, you win!"
WaitingLine == "Waiting for opponent turn"
WaitingDotLine == "Waiting for opponent turn."
OccupiedLine == "Field is already occupied, choose different one!"
InvalidCoordsLine == "Invalid coordinates, use values in format 'turn <A|B|C> <1|2|3>'"
NotYourTurnLine == "It is not your turn, waiting for opponent!"
PlayAgainLine == "Play again!"
UnknownLine == "Unknown command"

\* What a handler leaves behind: the session, what it published, the last
\* line it printed ("" when it printed nothing), and whether it panicked.
Done(gs, pub, line) == [gs |-> gs, pub |-> pub, out |-> line, panic |-> FALSE]

Panic(gs) == [gs |-> gs, pub |-> <<>>, out |-> "", panic |-> TRUE]

\* JSON payloads, by their fields
Request(sender) == [sender |-> sender]
Answer(accept) == [accept |-> accept]
MyTurn(x, y) == [x |-> x, y |-> y]

\* GameStatus, the decoded events on the internal queue. Start carries the
\* answer in the network_communication draft only; main enqueues Start for an
\* accepting Answer alone.
GameStatus_Init(id) == [tag |-> "Init", id |-> id]
GameStatus_Start(accept) == [tag |-> "Start", accept |-> accept]
GameStatus_Turn(x, y) == [tag |-> "Turn", x |-> x, y |-> y]

resolve_opponent_turn(d, x, y, gs) ==
    LET g1 == GameSession_make_opponent_turn(d, gs, x, y) IN
    IF is_opponent_winner(g1.game)
    THEN Done(GameSession_reset(g1), <<>>, LoseLine)
    ELSE Done(g1, <<>>, TableLine)

\* Mutation of resolve_spawned_messages: an Invite is taken whatever its
\* identifier.
resolve_spawned_messages_any_invite(d, game_status, gs, user_peer_id) ==
    CASE game_status.tag = "Init" ->
            Done(initiate(gs, game_status.id, FALSE), <<>>, ProposalLine)
      [] game_status.tag = "Start" ->
            IF game_status.accept
            THEN Done(gs, <<>>, MakeTurnLine)
            ELSE Done(gs, <<>>, NoLine)
      [] game_status.tag = "Turn" ->
            resolve_opponent_turn(d, game_status.x, game_status.y, gs)

resolve_spawned_messages(d, game_status, gs, user_peer_id) ==
    CASE game_status.tag = "Init" ->
            IF game_status.id = user_peer_id
            THEN Done(initiate(gs, game_status.id, FALSE), <<>>, ProposalLine)
            ELSE Done(gs, <<>>, "")
      [] game_status.tag = "Start" ->
            IF game_status.accept
            THEN Done(gs, <<>>, MakeTurnLine)
            ELSE Done(gs, <<>>, NoLine)
      [] game_status.tag = "Turn" ->
            resolve_opponent_turn(d, game_status.x, game_status.y, gs)

\* str::parse::<usize>() and str::parse::<char>() on one token
DigitStr == <<"0", "1", "2", "3", "4", "5", "6", "7">>

parse_usize(tok) ==
    IF \E i \in 1..Len(DigitStr) : DigitStr[i] = tok
    THEN Some((CHOOSE i \in 1..Len(DigitStr) : DigitStr[i] = tok) - 1)
    ELSE None

SingleChars == {"A", "B", "C", "D", "x"} \cup {DigitStr[i] : i \in 1..Len(DigitStr)}

parse_char(tok) == IF tok \in SingleChars THEN Some(tok) ELSE None

convert_coords(x, y) ==
    LET xx == CASE x = "A" -> Some(0)
                [] x = "B" -> Some(1)
                [] x = "C" -> Some(2)
                [] OTHER -> None
    IN IF xx = None \/ ~(y \in 1..3) THEN None ELSE Some(<<xx[1], y - 1>>)

\* rest is line.strip_prefix("turn "): None, or Some(the tokens after it).
\* rest.unwrap() panics on None.
parse_coords(rest) ==
    LET Ok(c) == [panic |-> FALSE, err |-> "", coords |-> c]
        Err(e) == [panic |-> FALSE, err |-> e, coords |-> <<>>]
    IN
    IF rest = None THEN [panic |-> TRUE, err |-> "", coords |-> <<>>]
    ELSE LET coords == rest[1] IN
         IF Len(coords) # 2 THEN Err("InvalidFormat")
         ELSE LET x == parse_char(coords[1])
                  y == parse_usize(coords[2])
              IN IF x # None /\ y # None
                 THEN LET c == convert_coords(x[1], y[1]) IN
                      IF c = None THEN Err("InvalidValue") ELSE Ok(c[1])
                 ELSE Err("InvalidFormat")

\* Mutation of make_one_turn: the winning move is announced but not published.
make_one_turn_silent_win(d, gs, x, y) ==
    LET r == GameSession_make_my_turn(d, gs, x, y) IN
    CASE r.res = "Ok" ->
            IF am_i_winner(r.gs.game)
            THEN Done(GameSession_reset(r.gs), <<>>, WinLine)
            ELSE Done(r.gs, <<MyTurn(x, y)>>, WaitingLine)
      [] r.res = "OccupiedField" -> Done(r.gs, <<>>, OccupiedLine)
      [] r.res = "InvalidValue" -> Done(r.gs, <<>>, InvalidCoordsLine)

make_one_turn(d, gs, x, y) ==
    LET r == GameSession_make_my_turn(d, gs, x, y) IN
    CASE r.res = "Ok" ->
            IF am_i_winner(r.gs.game)
            THEN Done(GameSession_reset(r.gs), <<MyTurn(x, y)>>, WinLine)
            ELSE Done(r.gs, <<MyTurn(x, y)>>, WaitingLine)
      [] r.res = "OccupiedField" -> Done(r.gs, <<>>, OccupiedLine)
      [] r.res = "InvalidValue" -> Done(r.gs, <<>>, InvalidCoordsLine)

\* make_turn with process_coords inlined (both print and return None on error)
make_turn_cmd(d, rest, gs) ==
    IF is_your_turn(gs)
    THEN LET p == parse_coords(rest) IN
         IF p.panic THEN Panic(gs)
         ELSE IF p.err # "" THEN Done(gs, <<>>, PlayAgainLine)
         ELSE make_one_turn(d, gs, p.coords[1], p.coords[2])
    ELSE Done(gs, <<>>, NotYourTurnLine)

\* rest is line.strip_prefix("start "): None, or Some(the text after it).
initiate_game(rest, gs) ==
    IF rest = None THEN Done(gs, <<>>, "")
    ELSE IF rest[1] = "any" THEN Done(gs, <<>>, "")
    ELSE LET index == parse_usize(rest[1]) IN
         IF index = None THEN Panic(gs)
         ELSE IF index[1] >= Len(Discovered) THEN Panic(gs)
         ELSE LET receiver_peer_id == Discovered[index[1] + 1] IN
              Done(initiate(gs, receiver_peer_id, TRUE),
                   <<Request(receiver_peer_id)>>, "")

send_answer(gs, answer) ==
    IF is_initiated(gs)
    THEN Done(gs, <<Answer(answer)>>, "")
    ELSE Done(gs, <<>>, UnknownLine)

-----------------------------------------------------------------------------
(* Spec: the loop takes one event at a time and runs its handler           *)

Init ==
    /\ draft \in Drafts
    /\ running = TRUE
    /\ game_session = GameSession_new
    /\ published = <<>>
    /\ out = HelpLine
    /\ ret = NoRet
    /\ inbound = None
    /\ spawned = <<>>
    /\ queue = <<>>
    /\ TwoNew

\* A panic ends the process: the session is gone with it.
Apply(r) ==
    IF r.panic
    THEN /\ running' = FALSE
         /\ game_session' = GameSession_new
         /\ published' = <<>>
         /\ out' = "panicked"
    ELSE /\ running' = TRUE
         /\ game_session' = r.gs
         /\ published' = r.pub
         /\ out' = r.out

\* Input lines, by the command they start with
Letters == {"A", "B", "C", "D"}
Numbers == {DigitStr[i + 1] : i \in 0..(MaxCoord + 1)}

TurnArgs ==
    {<<l, n>> : l \in Letters, n \in Numbers}
        \cup {<<>>, <<"A">>, <<"A", "1", "1">>, <<"AB", "1">>, <<"A", "x">>}

TurnRests ==
    {None} \cup
    {Some(a) : a \in {t \in TurnArgs :
        LET p == parse_coords(Some(t)) IN
        p.err = "" => InPlay(p.coords[1], p.coords[2])}}

StartRests ==
    {None, Some("any"), Some("x")} \cup {Some(DigitStr[i + 1]) : i \in 0..MaxIndex}

TurnCoords ==
    {c \in Coords \X Coords :
        (c[1] \in Idx /\ c[2] \in Idx) => InPlay(c[1], c[2])}

TurnEvents == {GameStatus_Turn(c[1], c[2]) : c \in TurnCoords}

InitEvents ==
    {GameStatus_Init(id) :
        id \in {LocalId} \cup {Discovered[i] : i \in 1..Len(Discovered)}}

StartEvents == {GameStatus_Start(TRUE), GameStatus_Start(FALSE)}

GameStatuses == InitEvents \cup StartEvents \cup TurnEvents

\* inject_event of main enqueues nothing for Answer{accept: false}.
Enqueued(d, game_status) ==
    d = "main" => game_status # GameStatus_Start(FALSE)

Help ==
    /\ running
    /\ Apply(Done(game_session, <<>>, HelpLine))
    /\ UNCHANGED <<draft, ret, net, two>>

Peers ==
    /\ running
    /\ Apply(Done(game_session, <<>>, PeersLine))
    /\ UNCHANGED <<draft, ret, net, two>>

Turn(rest) ==
    /\ running
    /\ Apply(make_turn_cmd(draft, rest, game_session))
    /\ UNCHANGED <<draft, ret, net, two>>

Start(rest) ==
    /\ running
    /\ Apply(initiate_game(rest, game_session))
    /\ UNCHANGED <<draft, ret, net, two>>

\* "y" | "yes": send_answer, then "Waiting for opponent turn." in any case
Yes ==
    /\ running
    /\ LET r == send_answer(game_session, TRUE) IN
       Apply(Done(r.gs, r.pub, WaitingDotLine))
    /\ UNCHANGED <<draft, ret, net, two>>

No ==
    /\ running
    /\ Apply(send_answer(game_session, FALSE))
    /\ UNCHANGED <<draft, ret, net, two>>

\* "Unknown command", then print_help()
Unknown ==
    /\ running
    /\ Apply(Done(game_session, <<>>, HelpLine))
    /\ UNCHANGED <<draft, ret, net, two>>

\* response_rcv.recv(): one decoded event taken off the internal queue
GameResponse(game_status) ==
    /\ running
    /\ Enqueued(draft, game_status)
    /\ Apply(resolve_spawned_messages(draft, game_status, game_session, LocalId))
    /\ UNCHANGED <<draft, ret, net, two>>

Next ==
    \/ Help
    \/ Peers
    \/ \E rest \in TurnRests : Turn(rest)
    \/ \E rest \in StartRests : Start(rest)
    \/ Yes
    \/ No
    \/ Unknown
    \/ \E game_status \in GameStatuses : GameResponse(game_status)

Spec == Init /\ [][Next]_vars

-----------------------------------------------------------------------------
(* Codec: serde_json::from_slice on the payload of an inbound message      *)

\* JSON scalars, by type and text
JString(txt) == [t |-> "string", v |-> txt]
JBool(txt) == [t |-> "bool", v |-> txt]
JNumber(txt) == [t |-> "number", v |-> txt]

\* Payloads: a JSON object (members are <<key, value>> pairs), a JSON array,
\* or bytes that are no JSON document.
JObject(members) == [members |-> members]
JArray(items) == [items |-> items]
NotJson(txt) == [text |-> txt]

is_object(data) == DOMAIN data = {"members"}
is_array(data) == DOMAIN data = {"items"}

\* The visitors of String, bool and usize
as_string(j) == IF j.t = "string" THEN Some(j.v) ELSE None

as_bool(j) == IF j.t = "bool" THEN Some(j.v = "true") ELSE None

as_usize(j) ==
    IF j.t = "number" /\ (\E i \in 1..Len(DigitStr) : DigitStr[i] = j.v)
    THEN Some((CHOOSE i \in 1..Len(DigitStr) : DigitStr[i] = j.v) - 1)
    ELSE None

\* The derived Deserialize of a struct with n fields takes a map, in which
\* unknown keys are skipped, or a sequence of exactly n elements.
shape_ok(data, n) ==
    \/ is_object(data)
    \/ is_array(data) /\ Len(data.items) = n

\* Field number i, called name: missing and duplicate keys are errors.
field(data, i, name) ==
    IF is_object(data)
    THEN LET found == {m \in data.members : m[1] = name} IN
         IF Cardinality(found) = 1
         THEN Some((CHOOSE m \in found : TRUE)[2])
         ELSE None
    ELSE IF is_array(data) /\ i <= Len(data.items)
    THEN Some(data.items[i])
    ELSE None

from_slice_Request(data) ==
    LET f == field(data, 1, "sender") IN
    IF shape_ok(data, 1) /\ f # None /\ as_string(f[1]) # None
    THEN Some(Request(as_string(f[1])[1]))
    ELSE None

from_slice_Answer(data) ==
    LET f == field(data, 1, "accept") IN
    IF shape_ok(data, 1) /\ f # None /\ as_bool(f[1]) # None
    THEN Some(Answer(as_bool(f[1])[1]))
    ELSE None

from_slice_MyTurn(data) ==
    LET fx == field(data, 1, "x")
        fy == field(data, 2, "y")
    IN IF /\ shape_ok(data, 2)
          /\ fx # None /\ as_usize(fx[1]) # None
          /\ fy # None /\ as_usize(fy[1]) # None
       THEN Some(MyTurn(as_usize(fx[1])[1], as_usize(fy[1])[1]))
       ELSE None

YesLine == "yes"
NoShortLine == "no"

\* Mutation of inject_event: a payload that parses as nothing is taken for
\* the Turn at (0, 0).
inject_event_default_turn(d, msg) ==
    IF /\ from_slice_Request(msg.data) = None
       /\ from_slice_Answer(msg.data) = None
       /\ from_slice_MyTurn(msg.data) = None
    THEN [events |-> <<GameStatus_Turn(0, 0)>>, out |-> ""]
    ELSE [events |-> <<>>, out |-> ""]

\* FloodsubMessage, by the fields the program can read
FloodsubMessage(source, data) == [source |-> source, data |-> data]

\* Mutation of inject_event: only the messages of the first discovered peer
\* are decoded.
inject_event_known_source(d, msg) ==
    LET opponent_turn == from_slice_MyTurn(msg.data) IN
    [events |-> IF msg.source = Discovered[1] /\ opponent_turn # None
                THEN <<GameStatus_Turn(opponent_turn[1].x, opponent_turn[1].y)>>
                ELSE <<>>,
     out |-> ""]

\* inject_event: three independent `if let Ok(..)` on msg.data, one after the
\* other; msg.source is not read. The result is the events handed to
\* spawn_internally, in program order, and the line printed ("" for none).
inject_event(d, msg) ==
    LET req == from_slice_Request(msg.data)
        resp == from_slice_Answer(msg.data)
        opponent_turn == from_slice_MyTurn(msg.data)
    IN [events |->
           (IF req # None THEN <<GameStatus_Init(req[1].sender)>> ELSE <<>>)
        \o (IF resp # None /\ (d # "main" \/ resp[1].accept)
            THEN <<GameStatus_Start(resp[1].accept)>> ELSE <<>>)
        \o (IF opponent_turn # None
            THEN <<GameStatus_Turn(opponent_turn[1].x, opponent_turn[1].y)>>
            ELSE <<>>),
        out |-> IF resp # None /\ d = "main"
                THEN (IF resp[1].accept THEN YesLine ELSE NoShortLine)
                ELSE ""]

-----------------------------------------------------------------------------
(* SpecInbound: payloads arrive, are decoded, queued and handled           *)

\* A message is delivered while at most MaxPending events are spawned or queued.
MaxPending == 0

SenderMembers == {{}, {<<"sender", JString(LocalId)>>}}

AcceptMembers ==
    {{}, {<<"accept", JBool("true")>>}, {<<"accept", JBool("false")>>}}

TurnMembers == {{}, {<<"x", JNumber("0")>>, <<"y", JNumber("0")>>}}

Payloads ==
    {JObject(s \cup a \cup t) :
        s \in SenderMembers, a \in AcceptMembers, t \in TurnMembers}
    \cup {JObject({<<"sender", JString(LocalId)>>, <<"z", JNumber("0")>>}),
          JObject({<<"sender", JNumber("1")>>}),
          JObject({<<"accept", JString("yes")>>}),
          JObject({<<"x", JNumber("0")>>}),
          JObject({<<"x", JNumber("-1")>>, <<"y", JNumber("0")>>}),
          JObject({<<"x", JString("A")>>, <<"y", JNumber("1")>>}),
          JArray(<<JString(LocalId)>>), JArray(<<JBool("true")>>),
          JArray(<<JNumber("0"), JNumber("1")>>), JArray(<<JNumber("0")>>),
          JArray(<<>>), NotJson("hello")}

\* The peers that publish on the topic
Sources == {Discovered[i] : i \in 1..Len(Discovered)}

InitInbound ==
    /\ draft \in Drafts
    /\ running = TRUE
    /\ game_session = GameSession_new
    /\ published = <<>>
    /\ out = HelpLine
    /\ ret = NoRet
    /\ inbound = None
    /\ spawned = <<>>
    /\ queue = <<>>
    /\ TwoNew

\* swarm.select_next_some() delivers FloodsubEvent::Message(msg) while no
\* more than cap events are on their way to the loop.
Inject(cap, source, data) ==
    /\ running
    /\ Len(spawned) + Len(queue) <= cap
    /\ LET msg == FloodsubMessage(source, data)
           r == inject_event(draft, msg)
       IN
       /\ inbound' = Some(msg)
       /\ spawned' = spawned \o r.events
       /\ out' = IF r.out # "" THEN r.out ELSE out
    /\ UNCHANGED <<draft, running, game_session, published, ret, queue, two>>

Message(source, data) == Inject(MaxPending, source, data)

\* Mutation of Send: the spawned task handles its event itself instead of
\* sending it to the loop.
Send_and_apply(i) ==
    /\ running
    /\ i \in 1..Len(spawned)
    /\ Apply(resolve_spawned_messages(draft, spawned[i], game_session, LocalId))
    /\ spawned' = SubSeq(spawned, 1, i - 1) \o SubSeq(spawned, i + 1, Len(spawned))
    /\ UNCHANGED <<draft, ret, inbound, queue, two>>

\* Mutation of Send: the event is put on the queue twice.
Send_twice(i) ==
    /\ running
    /\ i \in 1..Len(spawned)
    /\ queue' = queue \o <<spawned[i], spawned[i]>>
    /\ spawned' = SubSeq(spawned, 1, i - 1) \o SubSeq(spawned, i + 1, Len(spawned))
    /\ UNCHANGED <<draft, running, game_session, published, out, ret, inbound, two>>

\* One spawned task runs: sender.send(game_status)
Send(i) ==
    /\ running
    /\ i \in 1..Len(spawned)
    /\ queue' = Append(queue, spawned[i])
    /\ spawned' = SubSeq(spawned, 1, i - 1) \o SubSeq(spawned, i + 1, Len(spawned))
    /\ UNCHANGED <<draft, running, game_session, published, out, ret, inbound, two>>

\* response_rcv.recv() in the loop, then resolve_spawned_messages
Recv ==
    /\ running
    /\ queue # <<>>
    /\ Apply(resolve_spawned_messages(draft, Head(queue), game_session, LocalId))
    /\ queue' = Tail(queue)
    /\ UNCHANGED <<draft, ret, inbound, spawned, two>>

NextInbound ==
    \/ \E source \in Sources, data \in Payloads : Message(source, data)
    \/ \E i \in 1..3 : Send(i)
    \/ Recv

SpecInbound == InitInbound /\ [][NextInbound]_vars

\* SpecFair: the inbound path under fair scheduling, fed with one payload of
\* each shape, one of all three shapes, an empty object and a text that is
\* no JSON. The runtime runs
\* every spawned task, and the loop, whose select! polls response_rcv.recv()
\* in every round, takes a waiting event.
FairPayloads ==
    {JObject(m) : m \in SenderMembers \cup AcceptMembers \cup TurnMembers}
        \cup {JObject({<<"sender", JString(LocalId)>>, <<"accept", JBool("true")>>,
                       <<"x", JNumber("0")>>, <<"y", JNumber("0")>>}),
              NotJson("hello")}

NextFair ==
    \/ \E source \in Sources, data \in FairPayloads : Message(source, data)
    \/ \E i \in 1..3 : Send(i)
    \/ Recv

SpecFair ==
    /\ InitInbound
    /\ [][NextFair]_vars
    /\ WF_vars(\E i \in 1..3 : Send(i))
    /\ WF_vars(Recv)

-----------------------------------------------------------------------------
(* SpecOrder: messages of one event each, a second one arriving while the  *)
(* task of the first has not sent yet                                      *)

\* A message is delivered while no more than MaxBacklog events are on their
\* way to the loop.
MaxBacklog == 1

\* A message that inject_event decodes to exactly one event
MessageOne(source, data) ==
    /\ Len(inject_event(draft, FloodsubMessage(source, data)).events) = 1
    /\ Inject(MaxBacklog, source, data)

NextOrder ==
    \/ \E source \in Sources, data \in Payloads : MessageOne(source, data)
    \/ \E i \in 1..3 : Send(i)
    \/ Recv

SpecOrder == InitInbound /\ [][NextOrder]_vars

-----------------------------------------------------------------------------
(* SpecTwo: two participants on the topic, nobody else                     *)
(*                                                                         *)
(* A published payload reaches the other participant, whose inject_event   *)
(* decodes it and spawns one task per event. The tasks send in any order   *)
(* and neither they nor inject_event touch the session, so the loop of the *)
(* receiver may take the events it has not handled yet in any order.       *)

\* A command that publishes runs while fewer than cap events wait to be
\* handled, both participants counted. SpecTwo runs with MaxInFlight, where
\* every event is handled before the next one is published; SpecQueued runs
\* with MaxQueued, where events of both kinds wait together.
MaxInFlight == 1

MaxQueued == 3

\* Both participants aim at the first MaxTwoCell cells in row-major order.
MaxTwoCell == 2

BoolText(b) == IF b THEN "true" ELSE "false"

\* serde_json::to_string on Request, Answer and MyTurn
to_string(payload) ==
    CASE DOMAIN payload = {"sender"} ->
            JObject({<<"sender", JString(payload.sender)>>})
      [] DOMAIN payload = {"accept"} ->
            JObject({<<"accept", JBool(BoolText(payload.accept))>>})
      [] DOMAIN payload = {"x", "y"} ->
            JObject({<<"x", JNumber(DigitStr[payload.x + 1])>>,
                     <<"y", JNumber(DigitStr[payload.y + 1])>>})

\* The events the other side's inject_event spawns for what p published
Decoded(d, p, pub) ==
    IF pub = <<>> THEN <<>>
    ELSE inject_event(d, FloodsubMessage(p, to_string(pub[1]))).events

\* Input lines "turn <A|B|C> <1|2|3>" on the cells in play
PlayRests ==
    {Some(a) : a \in {t \in TurnArgs :
        LET p == parse_coords(Some(t)) IN
        /\ p.err = ""
        /\ p.coords[1] \in Idx /\ p.coords[2] \in Idx
        /\ 3 * p.coords[1] + p.coords[2] < MaxTwoCell}}

InitTwo ==
    /\ draft \in Drafts
    /\ running = TRUE
    /\ game_session = GameSession_new
    /\ published = <<>>
    /\ out = HelpLine
    /\ ret = NoRet
    /\ inbound = None
    /\ spawned = <<>>
    /\ queue = <<>>
    /\ TwoNew

\* The loop of p runs the handler of one input line; r is what it leaves.
Command(cap, p, r) ==
    /\ ~r.panic
    /\ Len(pending["a"]) + Len(pending["b"]) + Len(r.pub) <= cap
    /\ sessions' = [sessions EXCEPT ![p] = r.gs]
    /\ pending' = [pending EXCEPT ![Other(p)] = @ \o Decoded(draft, p, r.pub)]
    /\ UNCHANGED <<draft, running, game_session, published, out, ret, net>>

\* "a" types "start 0"; its list of discovered peers begins with "b".
StartCmd(cap) ==
    /\ Discovered[1] = "b"
    /\ Command(cap, "a", initiate_game(Some("0"), sessions["a"]))

TurnCmd(cap, p, rest) == Command(cap, p, make_turn_cmd(draft, rest, sessions[p]))

YesCmd(cap, p) == Command(cap, p, send_answer(sessions[p], TRUE))

NoCmd(cap, p) == Command(cap, p, send_answer(sessions[p], FALSE))

\* The loop of p takes one of its unhandled events.
Handle(p, i) ==
    /\ i \in 1..Len(pending[p])
    /\ sessions' = [sessions EXCEPT ![p] =
          resolve_spawned_messages(draft, pending[p][i], sessions[p], p).gs]
    /\ pending' = [pending EXCEPT ![p] =
          SubSeq(@, 1, i - 1) \o SubSeq(@, i + 1, Len(@))]
    /\ UNCHANGED <<draft, running, game_session, published, out, ret, net>>

NextTwo ==
    \/ StartCmd(MaxInFlight)
    \/ \E p \in Participants, rest \in PlayRests : TurnCmd(MaxInFlight, p, rest)
    \/ \E p \in Participants : YesCmd(MaxInFlight, p)
    \/ \E p \in Participants : NoCmd(MaxInFlight, p)
    \/ \E p \in Participants, i \in 1..MaxInFlight : Handle(p, i)

SpecTwo == InitTwo /\ [][NextTwo]_vars

NextQueued ==
    \/ StartCmd(MaxQueued)
    \/ \E p \in Participants, rest \in PlayRests : TurnCmd(MaxQueued, p, rest)
    \/ \E p \in Participants : YesCmd(MaxQueued, p)
    \/ \E p \in Participants : NoCmd(MaxQueued, p)
    \/ \E p \in Participants, i \in 1..MaxQueued : Handle(p, i)

SpecQueued == InitTwo /\ [][NextQueued]_vars

-----------------------------------------------------------------------------
(* SpecPlay: one game on the whole board, played by the rules              *)
(*                                                                         *)
(* "a" invites once, "b" may answer yes, and from then on each participant *)
(* with the turn marks an empty cell of its board; every event is handled  *)
(* before the next command. A participant whose session was reset after a  *)
(* win or a loss types nothing more.                                       *)

\* Input lines "turn <A|B|C> <1|2|3>", one per cell of the board
BoardRests ==
    {Some(a) : a \in {t \in TurnArgs :
        LET p == parse_coords(Some(t)) IN
        p.err = "" /\ p.coords[1] \in Idx /\ p.coords[2] \in Idx}}

PlayStart ==
    /\ sessions["a"] = GameSession_new
    /\ StartCmd(MaxInFlight)

PlayYes ==
    /\ sessions["b"].opponent_id # ""
    /\ sessions["b"].game.state = EmptyState
    /\ sessions["b"].your_turn = Some(FALSE)
    /\ YesCmd(MaxInFlight, "b")

PlayTurn(p, rest) ==
    /\ sessions[p].opponent_id # ""
    /\ is_your_turn(sessions[p])
    /\ LET c == parse_coords(rest).coords IN
       sessions[p].game.state[c[1]][c[2]] = "Empty"
    /\ TurnCmd(MaxInFlight, p, rest)

NextPlay ==
    \/ PlayStart
    \/ PlayYes
    \/ \E p \in Participants, rest \in BoardRests : PlayTurn(p, rest)
    \/ \E p \in Participants : Handle(p, 1)

SpecPlay == InitTwo /\ [][NextPlay]_vars

-----------------------------------------------------------------------------
(* Properties                                                              *)

state == game_session.game.state
winner == game_session.game.winner
your_turn == game_session.your_turn

PlayerTiles == {"Circle", "Cross"}

\* The 8 lines of the board, each a set of cells
Lines8 ==
    {{<<i, j>> : j \in Idx} : i \in Idx}
        \cup {{<<i, j>> : i \in Idx} : j \in Idx}
        \cup {{<<0, 0>>, <<1, 1>>, <<2, 2>>}, {<<2, 0>>, <<1, 1>>, <<0, 2>>}}

HasLine(st, tl) == \E L \in Lines8 : \A c \in L : st[c[1]][c[2]] = tl

AnyLine(st) == \E tl \in PlayerTiles : HasLine(st, tl)

Marks(st, tl) == Cardinality({c \in Idx \X Idx : st[c[1]][c[2]] = tl})

\* C1: for every filling of the board, every player tile and every cell
\* (x, y), check_win(tile, x, y) returns what the brute-force reference of the
\* engine's test returns.
C1_CheckWinIsBruteForce ==
    [][\A tl \in PlayerTiles, x \in Idx, y \in Idx :
          call_check_win(tl, x, y) =>
              ret'.val = check_win_brute_force(state, tl, x, y)]_vars

ScenarioBoard ==
    [i \in Idx |-> [j \in Idx |->
        IF i = 0 THEN "Circle"
        ELSE IF i = 1 /\ j \in {0, 1} THEN "Cross" ELSE "Empty"]]

\* C2: a successful placement on a board with no complete line leaves the
\* winner equal to the placing player iff one of the 8 lines is then entirely
\* that player's mark; and the board with You on row 0 and Opponent on (1,0),
\* (1,1) has winner You.
C2_WinnerIffLine ==
    [][/\ \A x \in Idx, y \in Idx :
            ~AnyLine(state) =>
              /\ (call_make_my_turn(x, y) /\ ret'.val = "Ok") =>
                    (winner' = "You" <=> HasLine(state', "Circle"))
              /\ (call_make_opponent_turn(x, y) /\ ret'.val = "Ok") =>
                    (winner' = "Opponent" <=> HasLine(state', "Cross"))
       /\ (state' = ScenarioBoard => winner' = "You")]_vars

\* C3: a local move that fails with OccupiedField leaves your_turn and the
\* board as they were before the command.
C3_OccupiedKeepsTurn ==
    [][\A rest \in TurnRests :
          (Turn(rest) /\ out' = OccupiedLine) =>
              (your_turn' = your_turn /\ state' = state)]_vars

\* C4: when a game has just concluded (the handler announced the win or the
\* loss and called reset()), the session is as new: your_turn None,
\* opponent_id empty, every cell Empty, winner Noone.
C4_ResetIsNew ==
    out \in {WinLine, LoseLine} => game_session = GameSession_new

\* C5: a Turn event processed while your_turn is None changes neither the
\* board nor your_turn.
C5_TurnIgnoredBeforeHandshake ==
    [][\A ev \in TurnEvents :
          (your_turn = None /\ GameResponse(ev)) =>
              UNCHANGED game_session]_vars

\* Every input line that starts with "turn", and every Turn event
AllTurnRests == {None} \cup {Some(a) : a \in TurnArgs}

ValidMove(rest) ==
    /\ rest # None
    /\ LET p == parse_coords(rest) IN
       p.err = "" /\ state[p.coords[1]][p.coords[2]] = "Empty"

\* Handler result r keeps every mark of the board, unless the move ended the
\* game and the handler reset the board.
MarksKept(r) ==
    \/ \A i \in Idx, j \in Idx :
          state[i][j] # "Empty" => r.gs.game.state[i][j] = state[i][j]
    \/ r.out \in {WinLine, LoseLine} /\ r.gs.game.state = EmptyState

\* C6: in every reachable session state, a valid local move (own turn, empty
\* in-range cell) leaves your_turn = Some(false), a received move on an empty
\* in-range cell leaves your_turn = Some(true), and neither overwrites a mark.
C6_TurnAlternates ==
    running =>
      /\ \A rest \in AllTurnRests :
            (is_your_turn(game_session) /\ ValidMove(rest)) =>
                LET r == make_turn_cmd(draft, rest, game_session) IN
                ~r.panic /\ r.gs.your_turn = Some(FALSE) /\ MarksKept(r)
      /\ \A x \in Idx, y \in Idx :
            state[x][y] = "Empty" =>
                LET r == resolve_spawned_messages(
                            draft, GameStatus_Turn(x, y), game_session, LocalId) IN
                r.gs.your_turn = Some(TRUE) /\ MarksKept(r)

C6_Witness ==
    /\ your_turn = Some(TRUE)
    /\ out = TableLine
    /\ Marks(state, "Circle") = 2
    /\ Marks(state, "Cross") = 2

\* C7: on every reachable board, a placement with x or y outside 0..2 returns
\* InvalidValue and leaves the board and the winner as they were, for either
\* player.
C7_OutOfRangeRejected ==
    \A player \in {"You", "Opponent"}, x \in Coords, y \in Coords :
        (x > 2 \/ y > 2) =>
            make_turn_universal(draft, game_session.game, player, x, y)
                = [game |-> game_session.game, res |-> "InvalidValue"]

C7_Witness ==
    /\ ret = [op |-> "place", val |-> "InvalidValue"]
    /\ Marks(state, "Circle") > 0
    /\ Marks(state, "Cross") > 0

IsTurnMessage(pub) == Len(pub) = 1 /\ DOMAIN pub[1] = {"x", "y"}

\* C8: a turn command given while your_turn = Some(false) prints the
\* not-your-turn line, publishes nothing and leaves the session unchanged;
\* a local move that publishes its Turn leaves your_turn = Some(false), so the
\* turn command right after it is rejected.
C8_NotYourTurn ==
    running =>
      /\ your_turn = Some(FALSE) =>
            \A rest \in AllTurnRests :
                make_turn_cmd(draft, rest, game_session)
                    = Done(game_session, <<>>, NotYourTurnLine)
      /\ \A rest \in AllTurnRests :
            LET r == make_turn_cmd(draft, rest, game_session) IN
            IsTurnMessage(r.pub) => r.gs.your_turn = Some(FALSE)
      /\ IsTurnMessage(published) => your_turn = Some(FALSE)

C8_Witness ==
    /\ out = NotYourTurnLine
    /\ your_turn = Some(FALSE)
    /\ published = <<>>
    /\ state = [EmptyState EXCEPT ![0][0] = "Circle"]

\* C9: in every reachable session state, an Invite event whose identifier is
\* not the local peer id leaves opponent_id, your_turn and the board unchanged.
C9_ForeignInviteIgnored ==
    running =>
      \A ev \in InitEvents :
          ev.id # LocalId =>
              resolve_spawned_messages(draft, ev, game_session, LocalId).gs
                  = game_session

C9_Witness ==
    /\ running
    /\ out = ""
    /\ published = <<>>
    /\ game_session = GameSession_new

\* C10: your_turn stays None through a start command and through an Invite
\* event, and it is None after the handler of a concluded game has reset the
\* session.
C10_UnsetUntilHandshake ==
    [][/\ \A rest \in StartRests :
            (your_turn = None /\ Start(rest)) => your_turn' = None
       /\ \A ev \in InitEvents :
            (your_turn = None /\ GameResponse(ev)) => your_turn' = None
       /\ out' \in {WinLine, LoseLine} => your_turn' = None]_vars

opponent_id == game_session.opponent_id

IsInviteMessage(pub) == Len(pub) = 1 /\ DOMAIN pub[1] = {"sender"}

IsAnswerMessage(pub) == Len(pub) = 1 /\ DOMAIN pub[1] = {"accept"}

\* C11: right after a start command has sent the Invite from a new session,
\* and before any Answer has been processed, every turn command is rejected:
\* it places no mark and publishes no Turn.
C11_NoMoveBeforeAnswer ==
    [][\A rest \in StartRests :
          (your_turn = None /\ Start(rest) /\ IsInviteMessage(published')) =>
              \A t \in AllTurnRests :
                  LET r == make_turn_cmd(draft, t, game_session') IN
                  r.pub = <<>> /\ r.gs.game = game_session'.game]_vars

\* The session of a participant that has sent an Invite and has seen no move
IsInitiator ==
    /\ \E i \in 1..Len(Discovered) : opponent_id = Discovered[i]
    /\ your_turn = Some(TRUE)
    /\ state = EmptyState

\* C12: when the initiator processes a declining Answer, your_turn is None and
\* opponent_id is empty afterwards, and every later turn command is rejected
\* with no mark placed and nothing published.
C12_DeclineReturnsToIdle ==
    [][(IsInitiator /\ GameResponse(GameStatus_Start(FALSE))) =>
          /\ your_turn' = None
          /\ opponent_id' = ""
          /\ \A t \in AllTurnRests :
                LET r == make_turn_cmd(draft, t, game_session') IN
                r.pub = <<>> /\ r.gs.game = game_session'.game]_vars

\* The session of a participant that has received an Invite addressed to it
\* and has seen no move
IsInvitee ==
    /\ opponent_id = LocalId
    /\ your_turn = Some(FALSE)
    /\ state = EmptyState

\* C13: a y/n input publishes an Answer only from the session of an invitee
\* (an Invite addressed to the local peer was received, no game is under way):
\* never from the initiator's session and never once a mark is on the board.
C13_AnswerOnlyFromInvitee ==
    [][((Yes \/ No) /\ IsAnswerMessage(published')) => IsInvitee]_vars

\* C14: when the invitee answers n, its session is as new afterwards:
\* your_turn None and opponent_id empty.
C14_DeclineResetsInvitee ==
    [][(IsInvitee /\ No /\ IsAnswerMessage(published')) =>
          (your_turn' = None /\ opponent_id' = "")]_vars

\* C15: a start command that is given while your_turn is set (a handshake or
\* a game is under way) and does not end the process changes neither
\* opponent_id, your_turn nor the board and publishes no Invite; and an Invite
\* is published by a start command only.
C15_StartOnlyFromIdle ==
    [][/\ \A rest \in StartRests :
            (your_turn # None /\ Start(rest) /\ running') =>
                (game_session' = game_session /\ published' = <<>>)
       /\ IsInviteMessage(published') => \E rest \in StartRests : Start(rest)]_vars

\* C16: in every reachable session state, a turn command that succeeds (own
\* turn, coordinates that parse, empty cell) publishes exactly one Turn, whose
\* (x, y) is the cell the Circle went to, and leaves your_turn = Some(false),
\* also when the move wins and the board is reset; every other turn command
\* publishes nothing.
C16_TurnMessagePerMove ==
    running =>
      /\ \A rest \in AllTurnRests :
            LET r == make_turn_cmd(draft, rest, game_session) IN
            IF is_your_turn(game_session) /\ ValidMove(rest)
            THEN /\ ~r.panic
                 /\ IsTurnMessage(r.pub)
                 /\ r.gs.your_turn = Some(FALSE)
                 /\ LET x == r.pub[1].x
                        y == r.pub[1].y
                    IN /\ x \in Idx /\ y \in Idx
                       /\ state[x][y] = "Empty"
                       /\ \/ r.gs.game.state = [state EXCEPT ![x][y] = "Circle"]
                          \/ /\ r.out = WinLine
                             /\ HasLine([state EXCEPT ![x][y] = "Circle"], "Circle")
            ELSE r.pub = <<>>
      /\ IsTurnMessage(published) => out \in {WinLine, WaitingLine}

C16_Witness ==
    /\ out = WinLine
    /\ published = <<MyTurn(0, 2)>>
    /\ your_turn = Some(FALSE)
    /\ state = EmptyState

\* C17: once winner is You or Opponent, no placement changes it; only reset()
\* does.
C17_WinnerSetOnce ==
    [][(winner \in {"You", "Opponent"} /\ ret'.op = "place") =>
          winner' = winner]_vars

\* C18: on every reachable board, a placement by either player at any
\* coordinates either fails and leaves the board as it was, or succeeds and
\* changes one cell, which was empty, to the player's mark: no non-empty cell
\* is emptied or changes its mark, so the number of non-empty cells never
\* decreases. get_state() shows a non-blank character exactly for the
\* non-empty cells.
C18_MarksNeverRemoved ==
    /\ \A player \in {"You", "Opponent"}, x \in Coords, y \in Coords :
          LET r == make_turn_universal(draft, game_session.game, player, x, y) IN
          IF r.res = "Ok"
          THEN /\ state[x][y] = "Empty"
               /\ r.game.state = [state EXCEPT ![x][y] = tile(player)]
          ELSE r.game.state = state
    /\ \A i \in Idx, j \in Idx :
          get_state(game_session.game)[i][j] = " " <=> state[i][j] = "Empty"

C18_Witness ==
    /\ ret = [op |-> "place", val |-> "OccupiedField"]
    /\ Marks(state, "Circle") = 2
    /\ Marks(state, "Cross") = 3

\* The three message shapes, as the payload's JSON has them
IsText(j) == j.t = "string"
IsFlag(j) == j.t = "bool"
IsIndex(j) == j.t = "number" /\ j.v # "-1"

MemberValues(data, key) == {m[2] : m \in {n \in data.members : n[1] = key}}

HasMember(data, key, Is(_)) ==
    /\ Cardinality(MemberValues(data, key)) = 1
    /\ \A j \in MemberValues(data, key) : Is(j)

IsInviteShape(data) ==
    \/ is_object(data) /\ HasMember(data, "sender", IsText)
    \/ is_array(data) /\ Len(data.items) = 1 /\ IsText(data.items[1])

IsAnswerShape(data) ==
    \/ is_object(data) /\ HasMember(data, "accept", IsFlag)
    \/ is_array(data) /\ Len(data.items) = 1 /\ IsFlag(data.items[1])

IsTurnShape(data) ==
    \/ /\ is_object(data)
       /\ HasMember(data, "x", IsIndex)
       /\ HasMember(data, "y", IsIndex)
    \/ /\ is_array(data)
       /\ Len(data.items) = 2
       /\ IsIndex(data.items[1])
       /\ IsIndex(data.items[2])

MalformedPayloads ==
    {data \in Payloads :
        ~IsInviteShape(data) /\ ~IsAnswerShape(data) /\ ~IsTurnShape(data)}

\* C19: one inbound message spawns at most one event, and a payload that has
\* the Invite shape spawns the Init event and nothing else, whatever other
\* fields it carries.
C19_FirstShapeWins ==
    [][\A source \in Sources, data \in Payloads :
          Message(source, data) =>
              /\ Len(spawned') <= Len(spawned) + 1
              /\ IsInviteShape(data) =>
                    \E ev \in InitEvents : spawned' = Append(spawned, ev)]_vars

\* C20: the delivery of a payload that has none of the three shapes spawns
\* and enqueues no event and leaves opponent_id, your_turn, the board and the
\* winner as they were.
C20_MalformedDiscarded ==
    [][\A source \in Sources, data \in MalformedPayloads :
          Message(source, data) =>
              UNCHANGED <<game_session, spawned, queue>>]_vars

C20_Witness ==
    /\ inbound = Some(FloodsubMessage(Discovered[1], NotJson("hello")))
    /\ spawned = <<>>
    /\ queue = <<>>
    /\ your_turn = Some(TRUE)
    /\ opponent_id = LocalId
    /\ state = [EmptyState EXCEPT ![0][0] = "Cross"]

\* The two diagonals, as sequences of cells
MainDiagonal == << <<0, 0>>, <<1, 1>>, <<2, 2>> >>
AntiDiagonal == << <<0, 2>>, <<1, 1>>, <<2, 0>> >>

OnDiagonal(diag, x, y) == \E i \in 1..3 : diag[i] = <<x, y>>

ReadLine(st, diag) == [i \in 1..3 |-> st[diag[i][1]][diag[i][2]]]

\* The diagonals through (x, y), each as the marks on its cells
DiagonalsThrough(st, x, y) ==
    (IF OnDiagonal(MainDiagonal, x, y)
     THEN <<ReadLine(st, MainDiagonal)>> ELSE <<>>)
    \o (IF OnDiagonal(AntiDiagonal, x, y)
        THEN <<ReadLine(st, AntiDiagonal)>> ELSE <<>>)

\* C21: for every filling of the board and every cell (x, y), the diagonal
\* lines the lookup hands to check_win are the diagonals through (x, y), read
\* from their own cells: one for a corner, both for the centre, none for an
\* edge midpoint.
C21_DiagonalLookup ==
    \A x \in Idx, y \in Idx :
        (IF draft = "main" THEN get_diagonal(state, x, y)
                           ELSE get_diagonal_vec(state, x, y))
            = DiagonalsThrough(state, x, y)

\* C23: a received Turn that the board engine rejects (cell occupied or
\* coordinate out of range) leaves the board and your_turn as they were.
C23_RejectedTurnKeepsOwner ==
    [][\A ev \in TurnEvents :
          (/\ your_turn # None
           /\ make_opponent_turn(draft, game_session.game, ev.x, ev.y).res # "Ok"
           /\ GameResponse(ev)) =>
              (your_turn' = your_turn /\ state' = state)]_vars

\* C29: an Invite addressed to the local peer that is processed while marks
\* are on the board leaves your_turn and the board as they were.
C29_InviteDuringGame ==
    [][(/\ your_turn # None
        /\ opponent_id # ""
        /\ state # EmptyState
        /\ GameResponse(GameStatus_Init(LocalId))) =>
            (your_turn' = your_turn /\ state' = state)]_vars

\* C24: a step of the inbound-message handler or of a spawned task leaves
\* the session as it was and only adds to the queue; the session changes and
\* the queue shrinks only in a step of the loop, which takes the one event at
\* the head of the queue and applies its handler.
C24_OnlyLoopMutates ==
    [][/\ (inbound' # inbound \/ spawned' # spawned) =>
             /\ game_session' = game_session
             /\ Len(queue') >= Len(queue)
             /\ SubSeq(queue', 1, Len(queue)) = queue
       /\ (game_session' # game_session \/ Len(queue') < Len(queue)) =>
             /\ queue # <<>>
             /\ queue' = Tail(queue)
             /\ spawned' = spawned
             /\ game_session' =
                  resolve_spawned_messages(
                      draft, Head(queue), game_session, LocalId).gs]_vars

C24_Witness ==
    /\ Len(spawned) = 2
    /\ Len(queue) = 1
    /\ queue[1].tag = "Turn"
    /\ your_turn = Some(FALSE)
    /\ opponent_id = LocalId
    /\ state = EmptyState

TurnPayloads == {data \in Payloads : IsTurnShape(data)}

\* C25: in every reachable initiated session, a Turn payload is decoded to the
\* same Turn event whichever peer published it, and handling that event puts
\* the Cross on the cell if it is empty and sets your_turn = Some(true).
C25_TurnFromAnyPeer ==
    (running /\ is_initiated(game_session)) =>
      \A source \in Sources, data \in TurnPayloads :
          LET evs == inject_event(draft, FloodsubMessage(source, data)).events IN
          \E i \in 1..Len(evs) :
              /\ evs[i].tag = "Turn"
              /\ LET r == resolve_spawned_messages(
                              draft, evs[i], game_session, LocalId)
                 IN /\ r.gs.your_turn = Some(TRUE)
                    /\ state[evs[i].x][evs[i].y] = "Empty" =>
                          \/ r.gs.game.state =
                               [state EXCEPT ![evs[i].x][evs[i].y] = "Cross"]
                          \/ r.out = LoseLine

C25_Witness ==
    /\ inbound = Some(FloodsubMessage(Discovered[2],
                        JArray(<<JNumber("0"), JNumber("1")>>)))
    /\ spawned = <<>>
    /\ queue = <<>>
    /\ out = TableLine
    /\ your_turn = Some(TRUE)
    /\ opponent_id = LocalId
    /\ state = [EmptyState EXCEPT ![0][1] = "Cross"]

\* The board and the turn flag of one participant
board(p) == sessions[p].game.state

turn(p) == sessions[p].your_turn

NothingPending == \A p \in Participants : pending[p] = <<>>

NoTurnPending ==
    \A p \in Participants : \A i \in 1..Len(pending[p]) : pending[p][i].tag # "Turn"

InGame ==
    \A p \in Participants : turn(p) # None /\ sessions[p].opponent_id # ""

\* C26: in a game under way with no event waiting, exactly one of the two
\* participants has the turn.
C26_ExactlyOneOwner ==
    (NothingPending /\ InGame) =>
        (turn("a") = Some(TRUE)) # (turn("b") = Some(TRUE))

\* What the other side holds for a cell and for the recorded winner
MirrorTile(t) ==
    CASE t = "Circle" -> "Cross"
      [] t = "Cross" -> "Circle"
      [] OTHER -> t

MirrorPlayer(w) ==
    CASE w = "You" -> "Opponent"
      [] w = "Opponent" -> "You"
      [] OTHER -> w

\* C27: with no Turn waiting to be handled the two boards are mirror images
\* of each other, and so are the recorded winners.
C27_BoardsMirrored ==
    NoTurnPending =>
        /\ \A x \in Idx, y \in Idx : board("a")[x][y] = MirrorTile(board("b")[x][y])
        /\ sessions["a"].game.winner = MirrorPlayer(sessions["b"].game.winner)

\* C30: once a participant has an opponent, it is the other participant.
C30_OpponentIsOther ==
    \A p \in Participants : sessions[p].opponent_id \in {"", Other(p)}

\* C28: a game ends with its ninth accepted move at the latest, so no
\* participant is left in a game whose board is full.
C28_GameEnds ==
    \A p \in Participants :
        sessions[p].opponent_id # "" =>
            \E x \in Idx, y \in Idx : board(p)[x][y] = "Empty"

\* C31: events reach the loop in the order of their messages. In SpecOrder
\* every message spawns one task, spawned lists the tasks that have not sent
\* in the order of their messages and the loop takes the head of queue, so
\* the event a task puts on the queue is that of the oldest such message.
C31_QueuedInMessageOrder ==
    [][Len(queue') > Len(queue) =>
          spawned # <<>> /\ queue' = Append(queue, spawned[1])]_vars

\* How often event e is held by a spawned task or by the queue
Count(seq, e) == Cardinality({i \in 1..Len(seq) : seq[i] = e})

OnTheWay(e) == Count(spawned, e) + Count(queue, e)

EventsOf(seq) == {seq[i] : i \in 1..Len(seq)}

\* One step of the inbound path: every event a message decodes to gets a
\* task, a task moves its event to the queue, and the loop applies the head
\* of the queue and removes it.
NoDropNoDuplicate ==
    /\ Len(spawned') > Len(spawned) =>
          /\ queue' = queue
          /\ inbound' # None
          /\ spawned' = spawned \o inject_event(draft, inbound'[1]).events
    /\ Len(spawned') < Len(spawned) =>
          /\ Len(spawned') = Len(spawned) - 1
          /\ game_session' = game_session
          /\ \A e \in EventsOf(spawned) \cup EventsOf(queue') :
                 Count(spawned', e) + Count(queue', e) = OnTheWay(e)
    /\ queue' # queue =>
          \/ Len(spawned') < Len(spawned)
          \/ /\ queue # <<>>
             /\ queue' = Tail(queue)
             /\ spawned' = spawned
             /\ game_session' =
                    resolve_spawned_messages(draft, Head(queue), game_session, LocalId).gs

\* A message arrives that decodes to an event
SpawnsTask == Len(spawned') > Len(spawned)

NothingOnTheWay == spawned = <<>> /\ queue = <<>>

C33_LoopKeepsRunning == running

=============================================================================
